---- MODULE Spec2Model ----
(***************************************************************************)
(* Model of the tx20bridge6410 firmware: the timer-driven ADC sampling     *)
(* scheduler (adctask.cpp) and the Davis 6410 wind-sensor state machine    *)
(* (davis6410.h, main.cpp).                                                *)
(*                                                                         *)
(* Two execution contexts exist: the main control flow, modelled by a      *)
(* program counter pc that walks through start_task / stop_task statement  *)
(* by statement, and the TIMER1_COMPA interrupt, which runs atomically     *)
(* whenever the global interrupt flag and the timer interrupt are enabled. *)
(* The converter hardware completes a conversion on its own.               *)
(***************************************************************************)
EXTENDS Integers, Sequences, FiniteSets, TLC

\* ------------------------------------------------------------------------
\* Program constants
\* ------------------------------------------------------------------------
\* Mutant: no sample is discarded after an activation.
k_adc_ignore_count_None == 4 - 4

k_adc_ignore_count == 4

k_wind_speed_sample_t == 2250

UnsetPin == 255

Uint8Mod == 256

\* ------------------------------------------------------------------------
\* Bounds of the model
\* ------------------------------------------------------------------------
\* Saturation value of the per-activation delivery counter (history).
MaxDelivered == 5

\* Granularity of the millisecond clock.
TimeStep == 1125

\* The clock wraps (as millis() does at 2^32) after this many steps.
MillisSteps == 3

\* The pulse counter stops accumulating here.
MaxPulses == 256

\* ------------------------------------------------------------------------
\* Universe
\* ------------------------------------------------------------------------
NoTask == "nullptr"

Tasks == {"wind_vane_task", "other_task"}

\* adc_pin_ of each task object (set by the constructor, never changed).
adc_pin_ == [t \in Tasks |-> IF t = "wind_vane_task" THEN 1 ELSE 0]

\* Values the 8 bit, left aligned conversion result can take.
SampleValues == {0, 70}

NoSample == 0 - 1

\* Edges the anemometer can add to the pulse counter between two steps.
PulseBursts == {128}

\* sample_period constructor argument (default k_wind_speed_sample_t).
SamplePeriods == {1125, k_wind_speed_sample_t}

\* (callback, context) pairs passed to start_sample.
NullPtr == "nullptr"

SampleRequests == {<<"log_wind_sample", NullPtr>>, <<"test_callback", "test_context">>}

MillisMod == MillisSteps * TimeStep

Max(a, b) == IF a > b THEN a ELSE b

Min(a, b) == IF a < b THEN a ELSE b

VARIABLES
  \* scheduler globals (adctask.cpp)
  current_adc_pin, next_adc_pin, current_adc_task, adc_tasks_initialised,
  \* converter and timer registers
  ADSC, ADCH, ADMUX, OCIE1A, sreg_I,
  \* per task members
  ignore_count_, filter_,
  \* main control flow
  pc, self, ret,
  \* history variables
  conv_chan, adch_chan, delivered, forwarded, last_service, last_started,
  last_displaced, last_hw, last_stop,
  \* wind meter (davis6410)
  state_, sample_period_, sample_start_time_, sample_pulse_count_,
  sample_direction_, sample_fn_, context_,
  \* wind meter collaborators and history
  millis, pulse_count, captured_pulses, captured_raw, last_callback, outstanding,
  last_call, accepted_request, resets

schedVars == <<current_adc_pin, next_adc_pin, current_adc_task, adc_tasks_initialised>>

hwVars == <<ADSC, ADCH, ADMUX, OCIE1A, sreg_I, conv_chan, adch_chan>>

taskVars == <<ignore_count_, filter_, delivered, forwarded>>

ctlVars == <<pc, self, ret>>

histVars == <<last_service, last_started, last_displaced, last_hw, last_stop>>

windVars == <<state_, sample_period_, sample_start_time_, sample_pulse_count_,
              sample_direction_, sample_fn_, context_>>

envVars == <<millis, pulse_count, captured_pulses, captured_raw, last_callback, outstanding,
             last_call, accepted_request, resets>>

vars == <<schedVars, hwVars, taskVars, ctlVars, histVars, windVars, envVars>>

\* ------------------------------------------------------------------------
\* Initial state: power-on defaults (adctask.cpp statics, member defaults)
\* ------------------------------------------------------------------------
NoStop == [task |-> NoTask, snap |-> <<>>, twice |-> FALSE]

NoService == [task |-> NoTask, nth |-> 0, fwd |-> FALSE, chan |-> NoSample]

SchedState == <<current_adc_task, next_adc_pin, current_adc_pin, adc_tasks_initialised>>

SchedInit ==
  /\ current_adc_pin = UnsetPin
  /\ next_adc_pin = 0
  /\ current_adc_task = NoTask
  /\ adc_tasks_initialised = FALSE
  /\ ADSC = FALSE /\ ADCH = 0 /\ ADMUX = 0 /\ OCIE1A = FALSE /\ sreg_I = TRUE
  /\ conv_chan = 0 /\ adch_chan = 0
  /\ ignore_count_ = [t \in Tasks |-> 0]
  /\ filter_ = [t \in Tasks |-> NoSample]
  /\ delivered = [t \in Tasks |-> 0]
  /\ forwarded = [t \in Tasks |-> FALSE]
  /\ pc = "main" /\ self = NoTask /\ ret = "main"
  /\ last_service = NoService
  /\ last_started = NoTask
  /\ last_displaced = NoTask
  /\ last_hw = "none"
  /\ last_stop = NoStop

\* ------------------------------------------------------------------------
\* Peripheral driver
\* ------------------------------------------------------------------------
\* Mutant: the trigger does not start a conversion.
analog_trigger_Skipped(mux) == UNCHANGED <<ADSC, conv_chan, last_hw>>

\* analog_trigger: sets ADSC.  When ADSC was clear a conversion starts on the
\* channel that `mux` selects; when ADSC was already set the write changes
\* nothing in the converter.  last_hw records which of the two happened.
analog_trigger(mux) ==
  /\ ADSC' = TRUE
  /\ conv_chan' = IF ADSC THEN conv_chan ELSE mux
  /\ last_hw' = IF ADSC THEN "trigger_in_flight" ELSE "trigger_idle"

analog_ready == ~ADSC

analog_read == ADCH

\* The converter finishes the conversion in flight: ADSC clears and the data
\* register holds a new value, converted on the channel latched at its start.
AdcComplete ==
  /\ ADSC
  /\ ADSC' = FALSE
  /\ \E v \in SampleValues : ADCH' = v
  /\ adch_chan' = conv_chan
  /\ UNCHANGED <<ADMUX, OCIE1A, sreg_I, conv_chan>>
  /\ UNCHANGED <<schedVars, taskVars, ctlVars, histVars, windVars, envVars>>

\* ------------------------------------------------------------------------
\* adctask::service, as the new values of the task members
\* ------------------------------------------------------------------------
\* Mutant: service never forwards a sample to the filter.
ServiceForwards_Never(t) == FALSE

\* Mutant: the countdown is tested after the decrement (one sample early).
ServiceForwards_OffByOne(t) == ignore_count_[t] <= 1

ServiceForwards(t) == ignore_count_[t] = 0

service(t, sample) ==
  /\ ignore_count_' = IF ignore_count_[t] # 0
                        THEN [ignore_count_ EXCEPT ![t] = @ - 1]
                        ELSE ignore_count_
  /\ filter_' = IF ServiceForwards(t)
                  THEN [filter_ EXCEPT ![t] = sample]
                  ELSE filter_
  /\ delivered' = [delivered EXCEPT ![t] = Min(@ + 1, MaxDelivered)]
  /\ forwarded' = IF ServiceForwards(t)
                    THEN [forwarded EXCEPT ![t] = TRUE]
                    ELSE forwarded
  /\ last_service' = [task |-> t,
                      nth |-> Min(delivered[t] + 1, MaxDelivered),
                      fwd |-> ServiceForwards(t),
                      chan |-> IF ServiceForwards(t) THEN adch_chan ELSE NoSample]

\* ------------------------------------------------------------------------
\* ISR(TIMER1_COMPA_vect)
\* ------------------------------------------------------------------------
IsrEnabled == sreg_I /\ OCIE1A

\* Mutant: the tick does not test whether the conversion has finished.
TickProceeds_Always == TRUE

\* if (!analog_ready()) return;
TickProceeds == analog_ready

IsrNotReady ==
  /\ IsrEnabled
  /\ ~TickProceeds
  /\ UNCHANGED vars

\* Mutant: the converter is switched but the switch is not recorded.
SwitchChannel_NotRecorded ==
  /\ ADMUX' = IF next_adc_pin # current_adc_pin THEN next_adc_pin % 8 ELSE ADMUX
  /\ UNCHANGED <<current_adc_pin, next_adc_pin>>

\* Mutant: the channel switch assigns the wrong way round.
SwitchChannel_Reversed ==
  /\ ADMUX' = IF next_adc_pin # current_adc_pin THEN next_adc_pin % 8 ELSE ADMUX
  /\ next_adc_pin' = current_adc_pin
  /\ UNCHANGED current_adc_pin

\* if (next_adc_pin != current_adc_pin) { ADMUX = ...; current_adc_pin = next_adc_pin; }
SwitchChannel ==
  /\ ADMUX' = IF next_adc_pin # current_adc_pin THEN next_adc_pin % 8 ELSE ADMUX
  /\ current_adc_pin' = IF next_adc_pin # current_adc_pin THEN next_adc_pin
                                                           ELSE current_adc_pin
  /\ UNCHANGED next_adc_pin

\* Mutant: the conversion is triggered before the channel is switched.
TriggerMux_BeforeSwitch == ADMUX

\* The channel selected when the tick triggers: analog_trigger() follows the
\* channel switch.
TriggerMux == ADMUX'

IsrSample ==
  /\ IsrEnabled
  /\ TickProceeds
  /\ LET sample == analog_read
     IN /\ SwitchChannel
        /\ analog_trigger(TriggerMux)
        /\ IF current_adc_task # NoTask
             THEN service(current_adc_task, sample)
             ELSE UNCHANGED <<taskVars, last_service>>
  /\ UNCHANGED <<current_adc_task, adc_tasks_initialised>>
  /\ UNCHANGED <<ADCH, OCIE1A, sreg_I, adch_chan>>
  /\ UNCHANGED <<last_started, last_displaced, last_stop>>
  /\ UNCHANGED <<ctlVars, windVars, envVars>>

ISR == IsrNotReady \/ IsrSample

\* ------------------------------------------------------------------------
\* Return from start_task / stop_task to the caller recorded in ret
\* ------------------------------------------------------------------------
ReturnPc == CASE ret = "main" -> "main"
              [] ret = "service" -> "service_stopped"
              [] ret = "abort" -> "abort_stopped"
              [] ret = "dtor" -> "dtor_delete"

\* ------------------------------------------------------------------------
\* adctask::start_task, one statement per step
\* ------------------------------------------------------------------------
\* Mutant: the critical section does not disable interrupts.
cli_Missing == sreg_I' = sreg_I

cli == sreg_I' = FALSE

sei == sreg_I' = TRUE

StartTask_cli ==
  /\ pc = "start_cli"
  /\ cli
  /\ delivered' = [delivered EXCEPT ![self] = 0]
  /\ forwarded' = [forwarded EXCEPT ![self] = FALSE]
  /\ pc' = "start_init"
  /\ UNCHANGED <<self, ret, ignore_count_, filter_>>
  /\ UNCHANGED <<ADSC, ADCH, ADMUX, OCIE1A, conv_chan, adch_chan>>
  /\ UNCHANGED <<schedVars, histVars, windVars, envVars>>

\* Mutant: init_adc_tasks does not test the flag.
AlreadyInitialised_Never == FALSE

\* if (adc_tasks_initialised) return;
AlreadyInitialised == adc_tasks_initialised

\* init_adc_tasks with initialise_timer_and_adc: enables the compare
\* interrupt of timer 1, triggers the first conversion, sets the flag.
init_adc_tasks ==
  IF AlreadyInitialised
    THEN UNCHANGED <<OCIE1A, ADSC, conv_chan, last_hw, adc_tasks_initialised>>
    ELSE /\ OCIE1A' = TRUE
         /\ analog_trigger(ADMUX)
         /\ adc_tasks_initialised' = TRUE

StartTask_init ==
  /\ pc = "start_init"
  /\ init_adc_tasks
  /\ pc' = "start_pin"
  /\ UNCHANGED <<self, ret>>
  /\ UNCHANGED <<ADCH, ADMUX, sreg_I, adch_chan>>
  /\ UNCHANGED <<current_adc_pin, next_adc_pin, current_adc_task>>
  /\ UNCHANGED <<last_service, last_started, last_displaced, last_stop>>
  /\ UNCHANGED <<taskVars, windVars, envVars>>

StartTask_pin ==
  /\ pc = "start_pin"
  /\ next_adc_pin' = adc_pin_[self]
  /\ pc' = "start_ignore"
  /\ UNCHANGED <<self, ret>>
  /\ UNCHANGED <<current_adc_pin, current_adc_task, adc_tasks_initialised>>
  /\ UNCHANGED <<hwVars, taskVars, histVars, windVars, envVars>>

StartTask_ignore ==
  /\ pc = "start_ignore"
  /\ ignore_count_' = [ignore_count_ EXCEPT ![self] = k_adc_ignore_count]
  /\ pc' = "start_current"
  /\ UNCHANGED <<self, ret, filter_, delivered, forwarded>>
  /\ UNCHANGED <<schedVars, hwVars, histVars, windVars, envVars>>

\* Mutant: a task is installed only when the slot is free.
NewCurrentTask_NoDisplace == IF current_adc_task = NoTask THEN self ELSE current_adc_task

\* if (current_adc_task != this) current_adc_task = this;
NewCurrentTask == IF current_adc_task # self THEN self ELSE current_adc_task

StartTask_current ==
  /\ pc = "start_current"
  /\ current_adc_task' = NewCurrentTask
  /\ last_displaced' = IF current_adc_task \notin {self, NoTask}
                         THEN current_adc_task ELSE NoTask
  /\ pc' = "start_trigger"
  /\ UNCHANGED <<self, ret>>
  /\ UNCHANGED <<current_adc_pin, next_adc_pin, adc_tasks_initialised>>
  /\ UNCHANGED <<last_service, last_started, last_hw, last_stop>>
  /\ UNCHANGED <<hwVars, taskVars, windVars, envVars>>

StartTask_trigger ==
  /\ pc = "start_trigger"
  /\ analog_trigger(ADMUX)
  /\ pc' = "start_sei"
  /\ UNCHANGED <<self, ret>>
  /\ UNCHANGED <<ADCH, ADMUX, OCIE1A, sreg_I, adch_chan>>
  /\ UNCHANGED <<last_service, last_started, last_displaced, last_stop>>
  /\ UNCHANGED <<schedVars, taskVars, windVars, envVars>>

StartTask_sei ==
  /\ pc = "start_sei"
  /\ sei
  /\ last_started' = self
  /\ last_service' = NoService
  /\ pc' = ReturnPc
  /\ UNCHANGED <<self, ret>>
  /\ UNCHANGED <<ADSC, ADCH, ADMUX, OCIE1A, conv_chan, adch_chan>>
  /\ UNCHANGED <<last_displaced, last_hw, last_stop>>
  /\ UNCHANGED <<schedVars, taskVars, windVars, envVars>>

start_task ==
  \/ StartTask_cli \/ StartTask_init \/ StartTask_pin \/ StartTask_ignore
  \/ StartTask_current \/ StartTask_trigger \/ StartTask_sei

\* ------------------------------------------------------------------------
\* adctask::stop_task, one statement per step
\* ------------------------------------------------------------------------
\* History kept when a stop_task called by a task's stop() from the main
\* control flow returns: the task, the scheduler state it leaves, and whether
\* the previous such call was a stop of the same task.
StopRecord(sched) ==
  IF ret = "main"
    THEN [task |-> self, snap |-> sched, twice |-> last_stop.task = self]
    ELSE last_stop

\* Mutant: stop_task never finds its task in the slot, so never clears it.
StopTaskHolds_Never == FALSE

\* Mutant: stop_task clears the slot without testing who holds it.
StopTaskHolds_Always == TRUE

StopTaskHolds == current_adc_task = self

StopTask_test ==
  /\ pc = "stop_test"
  /\ IF StopTaskHolds
       THEN /\ pc' = "stop_cli"
            /\ UNCHANGED last_stop
       ELSE /\ pc' = ReturnPc
            /\ last_stop' = StopRecord(SchedState)
  /\ UNCHANGED <<self, ret>>
  /\ UNCHANGED <<last_service, last_started, last_displaced, last_hw>>
  /\ UNCHANGED <<schedVars, hwVars, taskVars, windVars, envVars>>

StopTask_cli ==
  /\ pc = "stop_cli"
  /\ cli
  /\ pc' = "stop_clear"
  /\ UNCHANGED <<self, ret>>
  /\ UNCHANGED <<ADSC, ADCH, ADMUX, OCIE1A, conv_chan, adch_chan>>
  /\ UNCHANGED <<schedVars, taskVars, histVars, windVars, envVars>>

\* Mutant: stop_task leaves the slot as it is.
TaskAfterStop_Kept == current_adc_task

\* current_adc_task = nullptr;
TaskAfterStop == NoTask

StopTask_clear ==
  /\ pc = "stop_clear"
  /\ current_adc_task' = TaskAfterStop
  /\ pc' = "stop_sei"
  /\ UNCHANGED <<self, ret>>
  /\ UNCHANGED <<current_adc_pin, next_adc_pin, adc_tasks_initialised>>
  /\ UNCHANGED <<hwVars, taskVars, histVars, windVars, envVars>>

StopTask_sei ==
  /\ pc = "stop_sei"
  /\ sei
  /\ pc' = ReturnPc
  /\ last_stop' = StopRecord(SchedState)
  /\ UNCHANGED <<self, ret>>
  /\ UNCHANGED <<ADSC, ADCH, ADMUX, OCIE1A, conv_chan, adch_chan>>
  /\ UNCHANGED <<last_service, last_started, last_displaced, last_hw>>
  /\ UNCHANGED <<schedVars, taskVars, windVars, envVars>>

stop_task == StopTask_test \/ StopTask_cli \/ StopTask_clear \/ StopTask_sei

\* ------------------------------------------------------------------------
\* Main control flow calling a task's start() / stop()
\* ------------------------------------------------------------------------
CallStartTask(t) ==
  /\ pc = "main"
  /\ pc' = "start_cli" /\ self' = t /\ ret' = "main"
  /\ last_stop' = NoStop
  /\ UNCHANGED <<last_service, last_started, last_displaced, last_hw>>
  /\ UNCHANGED <<schedVars, hwVars, taskVars, windVars, envVars>>

CallStopTask(t) ==
  /\ pc = "main"
  /\ pc' = "stop_test" /\ self' = t /\ ret' = "main"
  /\ UNCHANGED <<schedVars, hwVars, taskVars, histVars, windVars, envVars>>

TaskStart == \E t \in Tasks : CallStartTask(t)

TaskStop == \E t \in Tasks : CallStopTask(t)

\* ------------------------------------------------------------------------
\* adctask::~adctask: stop_task(), then delete filter_
\* ------------------------------------------------------------------------
\* What filter_ points to once the destructor has deleted the filter.
DeletedFilter == 0 - 2

Alive(t) == filter_[t] # DeletedFilter

\* The destructor is entered for a task that has not been destroyed; its
\* first statement is the call of stop_task.
CallDestructor(t) ==
  /\ pc = "main"
  /\ Alive(t)
  /\ pc' = "stop_test" /\ self' = t /\ ret' = "dtor"
  /\ UNCHANGED <<schedVars, hwVars, taskVars, histVars, windVars, envVars>>

\* delete filter_;
Destructor_delete ==
  /\ pc = "dtor_delete"
  /\ filter_' = [filter_ EXCEPT ![self] = DeletedFilter]
  /\ pc' = "main"
  /\ UNCHANGED <<self, ret>>
  /\ UNCHANGED <<ignore_count_, delivered, forwarded>>
  /\ UNCHANGED <<schedVars, hwVars, histVars, windVars, envVars>>

TaskDestroy == \E t \in Tasks : CallDestructor(t)

\* start() and stop() are called on tasks that exist.
LiveTaskStart == \E t \in Tasks : Alive(t) /\ CallStartTask(t)

LiveTaskStop == \E t \in Tasks : Alive(t) /\ CallStopTask(t)


\* ------------------------------------------------------------------------
\* Davis 6410 wind meter
\* ------------------------------------------------------------------------
NoCallback == [fn |-> NullPtr, ctx |-> NullPtr, mph |-> 0, dir |-> 0,
               pulses |-> 0, raw |-> 0, period |-> 0, requested |-> <<NullPtr, NullPtr>>]

NoCall == [op |-> "none", from |-> "none", found |-> "idle", result |-> FALSE]

WindInit ==
  /\ state_ = "idle"
  /\ sample_start_time_ = 0
  /\ sample_pulse_count_ = 0
  /\ sample_direction_ = 0
  /\ sample_fn_ = NullPtr
  /\ context_ = NullPtr
  /\ millis = 0
  /\ pulse_count = 0
  /\ captured_pulses = 0
  /\ captured_raw = NoSample
  /\ last_callback = NoCallback
  /\ outstanding = 0
  /\ last_call = NoCall
  /\ accepted_request = <<NullPtr, NullPtr>>
  /\ resets = 0

Init == SchedInit /\ WindInit /\ sample_period_ = k_wind_speed_sample_t

\* The wind meter constructed with any of the sample periods.
InitWind == SchedInit /\ WindInit /\ sample_period_ \in SamplePeriods

\* Convert pulses to mph: linear in the pulses, one mph per pulse for the
\* default 2250 ms window.
calculate_wind_mph(pulses) == (pulses * k_wind_speed_sample_t) \div sample_period_

\* Sixteen compass sectors over the 8 bit analogue range.
wind_direction(raw) == raw \div 16

\* millis() - sample_start_time_ in unsigned arithmetic.
Elapsed == (millis - sample_start_time_) % MillisMod

\* Mutant: start_sample does not test the state.
StartSampleAccepts_Always(st) == TRUE

\* The test start_sample makes on the state it finds.
StartSampleAccepts(st) == st = "idle"

\* Mutant: start_sample resets the pulse counter whether or not it accepts.
PulsesAfterStartSample_Always(st) == 0

\* Pulse counter after a start_sample call that found state st.
PulsesAfterStartSample(st) == IF StartSampleAccepts(st) THEN 0 ELSE pulse_count

\* start_sample(fn, context) called from the main control flow.
StartSample(fn, ctx) ==
  /\ pc = "main"
  /\ IF StartSampleAccepts(state_)
       THEN /\ sample_fn_' = fn
            /\ context_' = ctx
            /\ sample_start_time_' = millis
            /\ state_' = "sampling_speed"
            /\ outstanding' = outstanding + 1
            /\ accepted_request' = <<fn, ctx>>
            /\ resets' = 1
       ELSE /\ UNCHANGED <<sample_fn_, context_, sample_start_time_, state_>>
            /\ UNCHANGED <<outstanding, accepted_request>>
            /\ resets' = IF PulsesAfterStartSample(state_) = pulse_count
                           THEN resets ELSE Min(resets + 1, 2)
  /\ pulse_count' = PulsesAfterStartSample(state_)
  /\ last_call' = [op |-> "start_sample", from |-> "main", found |-> state_,
                   result |-> StartSampleAccepts(state_)]
  /\ UNCHANGED <<sample_period_, sample_pulse_count_, sample_direction_>>
  /\ UNCHANGED <<millis, captured_pulses, captured_raw, last_callback>>
  /\ UNCHANGED <<schedVars, hwVars, taskVars, ctlVars, histVars>>

\* service() in the counting-speed state, window expired: capture the pulse
\* count into the uint8_t member and start the direction task.
ServiceSamplingSpeed ==
  /\ pc = "main"
  /\ state_ = "sampling_speed"
  /\ Elapsed >= sample_period_
  /\ sample_pulse_count_' = pulse_count % Uint8Mod
  /\ captured_pulses' = pulse_count
  /\ state_' = "sampling_direction"
  /\ pc' = "start_cli" /\ self' = "wind_vane_task" /\ ret' = "main"
  /\ last_stop' = NoStop
  /\ last_callback' = NoCallback
  /\ UNCHANGED <<sample_period_, sample_start_time_, sample_direction_, sample_fn_, context_>>
  /\ UNCHANGED <<millis, pulse_count, captured_raw, outstanding, last_call,
                 accepted_request, resets>>
  /\ UNCHANGED <<last_service, last_started, last_displaced, last_hw>>
  /\ UNCHANGED <<schedVars, hwVars, taskVars>>

\* service() in the reading-direction state once the direction task has a
\* post-settle sample: capture it and stop the task.
ServiceSamplingDirection ==
  /\ pc = "main"
  /\ state_ = "sampling_direction"
  /\ forwarded["wind_vane_task"]
  /\ sample_direction_' = filter_["wind_vane_task"]
  /\ captured_raw' = filter_["wind_vane_task"]
  /\ pc' = "stop_test" /\ self' = "wind_vane_task" /\ ret' = "service"
  /\ UNCHANGED <<state_, sample_period_, sample_start_time_, sample_pulse_count_,
                 sample_fn_, context_>>
  /\ UNCHANGED <<millis, pulse_count, captured_pulses, last_callback, outstanding,
                 last_call, accepted_request, resets>>
  /\ UNCHANGED <<schedVars, hwVars, taskVars, histVars>>

ServiceDirectionStopped ==
  /\ pc = "service_stopped"
  /\ state_' = "send_frame"
  /\ pc' = "main"
  /\ UNCHANGED <<self, ret>>
  /\ UNCHANGED <<sample_period_, sample_start_time_, sample_pulse_count_,
                 sample_direction_, sample_fn_, context_>>
  /\ UNCHANGED <<schedVars, hwVars, taskVars, histVars, envVars>>

\* The state the result callback finds when it runs inside service().
StateAtCallback == "idle"

\* Mutant: log_wind_sample only logs.
CallbackRearms_Never(fn) == FALSE

\* log_wind_sample starts the next sample; other callbacks do not.
CallbackRearms(fn) == fn = "log_wind_sample"

\* service() in the assembling-result state: convert, go idle, invoke the
\* callback, which may call start_sample before it returns.
ServiceSendFrame ==
  /\ pc = "main"
  /\ state_ = "send_frame"
  /\ last_callback' = [fn |-> sample_fn_, ctx |-> context_,
                       mph |-> calculate_wind_mph(sample_pulse_count_),
                       dir |-> wind_direction(sample_direction_),
                       pulses |-> captured_pulses, raw |-> captured_raw,
                       period |-> sample_period_, requested |-> accepted_request]
  /\ IF CallbackRearms(sample_fn_)
       THEN /\ last_call' = [op |-> "start_sample", from |-> "callback",
                             found |-> StateAtCallback,
                             result |-> StartSampleAccepts(StateAtCallback)]
            /\ pulse_count' = PulsesAfterStartSample(StateAtCallback)
            /\ IF StartSampleAccepts(StateAtCallback)
                 THEN /\ sample_fn_' = "log_wind_sample"
                      /\ context_' = NullPtr
                      /\ sample_start_time_' = millis
                      /\ state_' = "sampling_speed"
                      /\ outstanding' = outstanding
                      /\ accepted_request' = <<"log_wind_sample", NullPtr>>
                      /\ resets' = 1
                 ELSE /\ state_' = "idle"
                      /\ outstanding' = outstanding - 1
                      /\ UNCHANGED <<sample_fn_, context_, sample_start_time_,
                                     accepted_request, resets>>
       ELSE /\ state_' = "idle"
            /\ outstanding' = outstanding - 1
            /\ UNCHANGED <<sample_fn_, context_, sample_start_time_, resets,
                           pulse_count, last_call, accepted_request>>
  /\ captured_pulses' = 0
  /\ captured_raw' = NoSample
  /\ UNCHANGED <<sample_period_, sample_pulse_count_, sample_direction_>>
  /\ UNCHANGED millis
  /\ UNCHANGED <<schedVars, hwVars, taskVars, ctlVars, histVars>>

\* abort_sample(): release the direction task, then go idle.
AbortSample ==
  /\ pc = "main"
  /\ state_ # "idle"
  /\ pc' = "stop_test" /\ self' = "wind_vane_task" /\ ret' = "abort"
  /\ UNCHANGED <<schedVars, hwVars, taskVars, histVars, windVars, envVars>>

\* Mutant: abort_sample releases the task but keeps the state.
StateAfterAbort_Kept == state_

StateAfterAbort == "idle"

AbortStopped ==
  /\ pc = "abort_stopped"
  /\ state_' = StateAfterAbort
  /\ outstanding' = 0
  /\ last_call' = [op |-> "abort_sample", from |-> "main", found |-> state_,
                   result |-> TRUE]
  /\ pc' = "main"
  /\ UNCHANGED <<self, ret>>
  /\ UNCHANGED <<sample_period_, sample_start_time_, sample_pulse_count_,
                 sample_direction_, sample_fn_, context_>>
  /\ UNCHANGED <<millis, pulse_count, captured_pulses, captured_raw, last_callback,
                 accepted_request, resets>>
  /\ UNCHANGED <<schedVars, hwVars, taskVars, histVars>>

\* The millisecond clock advances.  The clock is read only by start_sample
\* and by service() while a window is counted, so the model advances it only
\* in that state, and stops one step before the elapsed time would wrap.
AdvanceTime ==
  /\ state_ = "sampling_speed"
  /\ Elapsed + TimeStep < MillisMod
  /\ millis' = (millis + TimeStep) % MillisMod
  /\ UNCHANGED <<pulse_count, captured_pulses, captured_raw, last_callback,
                 outstanding, last_call, accepted_request, resets>>
  /\ UNCHANGED <<schedVars, hwVars, taskVars, ctlVars, histVars, windVars>>

\* The anemometer's edge interrupt adds pulses to the counter.
PulseEdges ==
  /\ \E n \in PulseBursts :
       /\ pulse_count + n <= MaxPulses
       /\ pulse_count' = pulse_count + n
  /\ UNCHANGED <<millis, captured_pulses, captured_raw, last_callback,
                 outstanding, last_call, accepted_request, resets>>
  /\ UNCHANGED <<schedVars, hwVars, taskVars, ctlVars, histVars, windVars>>

RequestSample == \E r \in SampleRequests : StartSample(r[1], r[2])

\* ------------------------------------------------------------------------
\* Specifications
\* ------------------------------------------------------------------------
\* The scheduler driven directly by its tasks.
Next ==
  \/ TaskStart
  \/ TaskStop
  \/ StartTask_cli \/ StartTask_init \/ StartTask_pin \/ StartTask_ignore
  \/ StartTask_current \/ StartTask_trigger \/ StartTask_sei
  \/ StopTask_test \/ StopTask_cli \/ StopTask_clear \/ StopTask_sei
  \/ IsrNotReady
  \/ IsrSample
  \/ AdcComplete

Spec == Init /\ [][Next]_vars

\* The wind meter driving the scheduler through its direction task.
WindNext ==
  \/ RequestSample
  \/ ServiceSamplingSpeed
  \/ ServiceSamplingDirection
  \/ ServiceDirectionStopped
  \/ ServiceSendFrame
  \/ AbortSample
  \/ AbortStopped
  \/ AdvanceTime
  \/ PulseEdges
  \/ StartTask_cli \/ StartTask_init \/ StartTask_pin \/ StartTask_ignore
  \/ StartTask_current \/ StartTask_trigger \/ StartTask_sei
  \/ StopTask_test \/ StopTask_cli \/ StopTask_clear \/ StopTask_sei
  \/ IsrNotReady
  \/ IsrSample
  \/ AdcComplete

WindSpec == InitWind /\ [][WindNext]_vars

\* ------------------------------------------------------------------------
\* Properties of the scheduler (checked under Spec)
\* ------------------------------------------------------------------------
\* C1: the active-task slot holds at most one task, and every sample a tick
\* delivers since the last start_task returned goes to the task that
\* start_task installed, never to the task it displaced.
C1_OnlyLastStartedServiced ==
  /\ current_adc_task \in Tasks \cup {NoTask}
  /\ last_service.task # NoTask => last_service.task = last_started
  /\ last_displaced # NoTask => last_displaced # current_adc_task

\* Reached: a task was displaced by another one, which then got a sample.
C1_Witness ==
  /\ last_displaced = "wind_vane_task"
  /\ last_started = "other_task"
  /\ last_service.task = "other_task"
  /\ delivered["wind_vane_task"] > 0

\* C2: counted from the activation of a task, the first four samples its
\* service receives are not forwarded to the filter and every later one is.
C2_SettleThenForward ==
  /\ last_service.task # NoTask =>
       (last_service.fwd <=> last_service.nth > 4)
  /\ \A t \in Tasks : forwarded[t] <=> delivered[t] > 4

\* Reached: a task that ran past its settle samples was displaced, and the
\* fifth sample of the task that displaced it is forwarded.
C2_Witness ==
  /\ last_service.task = "wind_vane_task"
  /\ last_service.nth = 5
  /\ last_service.fwd
  /\ last_displaced = "other_task"
  /\ filter_["other_task"] # NoSample

\* stop_task returns to its caller in this step.
StopReturns == (StopTask_test /\ pc' # "stop_cli") \/ StopTask_sei

\* The previous main-context call was a stop of the same task.
SecondStop == StopReturns /\ last_stop.task = self

\* C7 as stated: after the second of two consecutive stops of a task the
\* scheduler state (active task, requested channel, current channel,
\* initialisation flag) equals the state the first stop left.
C7_SecondStopSameState == [][SecondStop => SchedState' = last_stop.snap]_vars

\* C7 amended: the second stop leaves the active task, the requested channel
\* and the initialisation flag as the first stop left them, and no step of
\* stop_task changes the current channel (a tick in between may).
C7_SecondStopIdempotent ==
  [][/\ stop_task => UNCHANGED current_adc_pin
     /\ SecondStop => /\ current_adc_task' = last_stop.snap[1]
                      /\ next_adc_pin' = last_stop.snap[2]
                      /\ adc_tasks_initialised' = last_stop.snap[4]
                      /\ UNCHANGED SchedState]_vars

\* Reached: the second of two consecutive stops of the task that was active
\* has returned, with the channel it had requested applied by a tick.
C7_Witness ==
  /\ last_stop.twice
  /\ pc = "main"
  /\ last_stop.task = last_started
  /\ last_stop.snap[1] = NoTask
  /\ current_adc_pin = adc_pin_[last_stop.task]

\* C8: no step of a stop_task called by a task that is not the active task
\* changes the active task, the requested channel, the current channel or
\* the initialisation flag.
C8_StaleStopIsNoOp ==
  [][(stop_task /\ current_adc_task # self) => UNCHANGED SchedState]_vars

\* Reached: a displaced task has called stop and the newer task is still
\* registered and has received a sample since.
C8_Witness ==
  /\ pc = "main"
  /\ last_stop.task = "wind_vane_task"
  /\ last_displaced = "wind_vane_task"
  /\ current_adc_task = "other_task"
  /\ last_service.task = "other_task"

\* Places of the main control flow between cli() and sei().
CriticalPcs == {"start_init", "start_pin", "start_ignore", "start_current",
                "start_trigger", "start_sei", "stop_clear", "stop_sei"}

\* C9: the statements that change the requested channel, the active task and
\* the settle countdown run with interrupts disabled; whenever a tick can run
\* the active task comes with its own channel and its own countdown; the
\* clear in stop_task finds the caller registered.
C9_CriticalSection ==
  /\ pc \in CriticalPcs => ~sreg_I
  /\ (sreg_I /\ current_adc_task # NoTask) =>
        /\ next_adc_pin = adc_pin_[current_adc_task]
        /\ ignore_count_[current_adc_task] =
             Max(0, 4 - delivered[current_adc_task])
  /\ pc = "stop_clear" => current_adc_task = self

\* Reached: inside start_task the new channel is set while the old task is
\* still installed, a conversion is ready and the timer interrupt is masked.
C9_Witness ==
  /\ pc = "start_current"
  /\ current_adc_task \notin {self, NoTask}
  /\ next_adc_pin # adc_pin_[current_adc_task]
  /\ OCIE1A /\ ~ADSC /\ ~sreg_I

\* C10: analog_trigger is never called while a conversion is in flight.
C10_NoTriggerInFlight == last_hw # "trigger_in_flight"

\* ------------------------------------------------------------------------
\* Properties of the wind meter (checked under WindSpec)
\* ------------------------------------------------------------------------
\* A start_sample call from the main control flow.
StartSampleCall == \E r \in SampleRequests : StartSample(r[1], r[2])

\* C3: start_sample in a state other than idle returns false and leaves the
\* pulse counter, the window start, the callback, its context and the state
\* unchanged; a callback that fires is the one of the accepted request.
C3_BusyRejected ==
  [][/\ (StartSampleCall /\ state_ # "idle") =>
          /\ ~last_call'.result
          /\ UNCHANGED <<pulse_count, sample_start_time_, sample_fn_, context_,
                         state_, accepted_request>>
     /\ (ServiceSendFrame =>
          <<last_callback'.fn, last_callback'.ctx>> = accepted_request)]_vars

\* Reached: a sample requested with test_callback completed with it although
\* the last start_sample, made while the window was counted, asked for
\* another callback and was rejected.
C3_Witness ==
  /\ last_callback.fn = "test_callback"
  /\ last_callback.pulses > 0
  /\ last_call = [op |-> "start_sample", from |-> "main",
                  found |-> "sampling_speed", result |-> FALSE]

\* pulses over the window, one mph per pulse for a 2250 ms window.
linear_map(P, W) == (P * 2250) \div W

\* C4 as stated: the callback fires once per accepted sample with the speed
\* linear_map(P, W) of the P pulses the counter reported at window expiry
\* and the sector of the raw direction captured.
C4_CallbackValues ==
  /\ outstanding \in {0, 1}
  /\ last_callback.fn # NullPtr =>
       /\ last_callback.mph = linear_map(last_callback.pulses, last_callback.period)
       /\ last_callback.dir = last_callback.raw \div 16

\* C5: after abort_sample the state is idle and a start_sample would be
\* accepted; no callback is owed for the aborted sample, so none fires.
C5_AbortGoesIdle ==
  /\ last_call.op = "abort_sample" =>
       /\ state_ = "idle"
       /\ StartSampleAccepts(state_)
       /\ outstanding = 0
  /\ outstanding >= 0
  /\ state_ = "idle" => outstanding = 0

\* Reached: a sample aborted while the direction was being read, idle now.
C5_Witness ==
  /\ last_call.op = "abort_sample"
  /\ last_call.found = "sampling_direction"
  /\ state_ = "idle"
  /\ pc = "main"

C11_ForwardedFromOwnChannel ==
  last_service.fwd => last_service.chan = adc_pin_[last_service.task] % 8

\* Reached: the first sample forwarded to a task that displaced a task on
\* another channel before the pending switch to that channel was applied.
C11_Witness ==
  /\ last_service.fwd
  /\ last_service.nth = 5
  /\ last_service.task = "other_task"
  /\ last_displaced = "wind_vane_task"
  /\ delivered["wind_vane_task"] = 0

\* C12: a tick that finds the converter ready reads the finished sample,
\* applies the requested channel, triggers the next conversion on the channel
\* just applied and dispatches the sample it read: the dispatched sample was
\* converted on the channel selected before the tick, and the conversion the
\* tick starts (read by the following tick) runs on the requested channel.
C12_TickStep ==
  IsrSample =>
    /\ adch_chan = ADMUX
    /\ ADMUX' = next_adc_pin % 8
    /\ current_adc_pin' = next_adc_pin
    /\ ADSC' /\ conv_chan' = ADMUX'
    /\ \A t \in Tasks :
         (current_adc_task = t /\ ignore_count_[t] = 0) => filter_'[t] = ADCH

C12_TickOrder == [][C12_TickStep]_vars

\* Reached: a tick has applied the switch to the wind vane's channel and
\* started a conversion on it, while the sample it dispatched to the wind vane
\* task came from the channel selected before.
C12_Witness ==
  /\ last_service.task = "wind_vane_task"
  /\ last_service.nth = 1
  /\ current_adc_pin = adc_pin_["wind_vane_task"]
  /\ ADMUX = adc_pin_["wind_vane_task"] % 8
  /\ ADSC /\ conv_chan = ADMUX
  /\ adch_chan # ADMUX

\* C13: the current channel changes only in a tick that finds the converter
\* ready, and after such a tick it equals the requested channel; no statement
\* of start_task or stop_task changes the current channel, and no tick changes
\* the requested channel.
C13_ChannelStep ==
  /\ (current_adc_pin' # current_adc_pin) => (IsrEnabled /\ analog_ready /\ IsrSample)
  /\ IsrSample => current_adc_pin' = next_adc_pin'
  /\ (start_task \/ stop_task) => current_adc_pin' = current_adc_pin
  /\ ISR => next_adc_pin' = next_adc_pin

C13_ChannelOwnership == [][C13_ChannelStep]_vars

\* Reached: a start_task has requested the wind vane's channel, a ready tick
\* has made it the current channel, and a later start_task of the other task
\* has returned with a different request that no tick has applied yet.
C13_Witness ==
  /\ pc = "main"
  /\ last_started = "other_task"
  /\ last_displaced = "wind_vane_task"
  /\ current_adc_pin = adc_pin_["wind_vane_task"]
  /\ next_adc_pin = adc_pin_["other_task"]

\* C14: a tick that finds the conversion still running returns at once: it
\* switches no channel, triggers nothing and dispatches nothing, so no
\* variable changes in it.
C14_NotReadyStep == (IsrEnabled /\ ~analog_ready /\ ISR) => UNCHANGED vars

C14_NotReadyTickIdle == [][C14_NotReadyStep]_vars

\* Reached: a tick can fire while the conversion is still running although a
\* task is active, its settle count is not used up and a channel switch is
\* pending.
C14_Witness ==
  /\ IsrEnabled /\ ~analog_ready
  /\ ENABLED IsrNotReady
  /\ current_adc_task = "wind_vane_task"
  /\ ignore_count_["wind_vane_task"] > 0
  /\ next_adc_pin # current_adc_pin

\* ------------------------------------------------------------------------
\* Further properties of the wind meter (checked under WindSpec)
\* ------------------------------------------------------------------------
\* C15: while the wind meter is idle, counting pulses or about to deliver a
\* result, the wind vane task is not the scheduler's active task.
C15_VaneReleased ==
  state_ \in {"idle", "sampling_speed", "send_frame"} =>
    current_adc_task # "wind_vane_task"

\* Reached: the direction has been captured from the wind vane task's filter,
\* the task has been stopped and the result is about to be delivered.
C15_Witness ==
  /\ state_ = "send_frame"
  /\ pc = "main"
  /\ forwarded["wind_vane_task"]
  /\ captured_raw = 70
  /\ last_started = "wind_vane_task"
  /\ current_adc_task = NoTask

\* ------------------------------------------------------------------------
\* The scheduler with a timer that keeps ticking and a converter that keeps
\* finishing: the compare-match interrupt recurs while it is enabled, and a
\* started conversion completes after a fixed number of converter clocks.
\* ------------------------------------------------------------------------
LiveSpec ==
  /\ Init
  /\ [][Next]_vars
  /\ WF_vars(IsrSample)
  /\ WF_vars(AdcComplete)

\* A tick that proceeds leaves a conversion in flight, with or without an
\* active task.
TickRetriggers == IsrSample => ADSC'

\* Once initialised, the timer interrupt stays enabled and a conversion has
\* been started: one is in flight, or one is complete and the next tick will
\* read it and start another.
SamplingRuns ==
  adc_tasks_initialised => (OCIE1A /\ last_hw # "none")

\* C16: sampling never stalls once initialised: every ready tick re-triggers,
\* the timer interrupt stays enabled with a conversion in flight or finished,
\* a finished conversion is followed by a new one while the program is outside
\* start_task and stop_task,
\* and a task that start_task has made active gets a sample forwarded to its
\* filter unless the program calls start_task or stop_task again first.
C16_SamplingNeverStalls ==
  /\ [][TickRetriggers]_vars
  /\ []SamplingRuns
  /\ (adc_tasks_initialised /\ ~ADSC /\ pc = "main") ~> (ADSC \/ pc # "main")
  /\ \A t \in Tasks :
       (current_adc_task = t /\ pc = "main") ~> (forwarded[t] \/ pc # "main")

\* Reached: a task left alone after start_task has had its settle samples
\* discarded and a sample forwarded.
C16_Witness ==
  /\ pc = "main"
  /\ current_adc_task = "other_task"
  /\ last_started = "other_task"
  /\ last_service = [task |-> "other_task", nth |-> 5, fwd |-> TRUE,
                     chan |-> adc_pin_["other_task"] % 8]

\* ------------------------------------------------------------------------
\* The wind meter serviced from loop(): loop() calls service() again and
\* again, a call into start_task or stop_task runs to its return, the
\* millisecond clock advances, the timer keeps ticking and conversions keep
\* finishing.  Requests and aborts from outside are not forced.
\* ------------------------------------------------------------------------
WindLiveNext ==
  \/ RequestSample
  \/ ServiceSamplingSpeed
  \/ ServiceSamplingDirection
  \/ ServiceDirectionStopped
  \/ ServiceSendFrame
  \/ AbortSample
  \/ AbortStopped
  \/ AdvanceTime
  \/ start_task
  \/ stop_task
  \/ IsrNotReady
  \/ IsrSample
  \/ AdcComplete

WindLiveSpec ==
  /\ Init
  /\ [][WindLiveNext]_vars
  /\ WF_vars(ServiceSamplingSpeed)
  /\ WF_vars(ServiceSamplingDirection)
  /\ WF_vars(ServiceDirectionStopped)
  /\ WF_vars(ServiceSendFrame)
  /\ WF_vars(AbortStopped)
  /\ WF_vars(start_task)
  /\ WF_vars(stop_task)
  /\ WF_vars(AdvanceTime)
  /\ WF_vars(IsrSample)
  /\ WF_vars(AdcComplete)

\* The sample in progress has ended: its callback has run or it was aborted.
SampleEnded == last_callback # NoCallback \/ last_call.op = "abort_sample"

\* A callback is invoked only by the step that leaves the assembling-result
\* state, so a sample gets at most one.
CallbackOnce ==
  (last_callback' # last_callback /\ last_callback' # NoCallback) =>
    (state_ = "send_frame" /\ state_' # "send_frame" /\ last_callback = NoCallback)

\* C17: every accepted sample terminates: the counting window ends, the
\* direction is read, the callback is invoked exactly once unless the sample
\* is aborted, and no busy state is occupied forever.
C17_SampleTerminates ==
  /\ [][CallbackOnce]_vars
  /\ [](outstanding \in {0, 1})
  /\ \A st \in {"new_sample", "sampling_speed", "sampling_direction", "send_frame"} :
       (state_ = st) ~> (state_ # st)
  /\ (state_ \in {"sampling_direction", "send_frame"}) ~> SampleEnded
  /\ (state_ = "send_frame") ~> (state_ = "idle" \/ last_callback.fn = "log_wind_sample")

\* Reached: a sample requested with a callback that does not re-arm went
\* through counting, direction reading and result assembly, its callback ran
\* and the meter is idle again.
C17_Witness ==
  /\ state_ = "idle"
  /\ pc = "main"
  /\ outstanding = 0
  /\ last_callback.fn = "test_callback"
  /\ last_callback.raw = 70
  /\ current_adc_task = NoTask

\* A step that opens a sampling window: an accepted start_sample, called from
\* the main program or from the result callback.
OpensWindow ==
  /\ state_ \in {"idle", "send_frame"}
  /\ state_' = "sampling_speed"

\* C18: the pulse counter is reset by the accepted start_sample that opens a
\* window and by nothing else: the counter never goes down in any other step,
\* in particular not in a service call or a rejected start_sample between the
\* start of the window and the capture, and the capture takes the pulses
\* counted since that one reset.
C18_ResetStep ==
  /\ OpensWindow => (pulse_count' = 0 /\ resets' = 1)
  /\ (pulse_count' < pulse_count) => OpensWindow
  /\ (resets' # resets) => OpensWindow
  /\ (state_ = "sampling_speed" /\ state_' = "sampling_direction") =>
       (captured_pulses' = pulse_count /\ pulse_count' = pulse_count /\ resets = 1)

C18_ResetOncePerWindow == [][C18_ResetStep]_vars

\* Reached: pulses were counted, a start_sample made during the window was
\* rejected, and the window's pulse count was captured afterwards.
C18_Witness ==
  /\ state_ = "sampling_direction"
  /\ captured_pulses = 128
  /\ last_call.op = "start_sample"
  /\ last_call.found = "sampling_speed"
  /\ ~last_call.result
  /\ resets = 1

\* ------------------------------------------------------------------------
\* The scheduler with tasks that are started, stopped and destroyed
\* ------------------------------------------------------------------------
LifeNext ==
  \/ LiveTaskStart
  \/ LiveTaskStop
  \/ TaskDestroy
  \/ Destructor_delete
  \/ start_task
  \/ stop_task
  \/ IsrNotReady
  \/ IsrSample
  \/ AdcComplete

LifeSpec == Init /\ [][LifeNext]_vars

\* After a stop() has returned to the main program, and until the next call
\* of start(), the stopped task is not in the slot the tick dispatches to.
StoppedNotActive ==
  (pc = "main" /\ last_stop.task # NoTask) => current_adc_task # last_stop.task

\* A task whose filter the destructor has deleted is not in the slot.
DeletedNotActive ==
  \A t \in Tasks : ~Alive(t) => current_adc_task # t

\* A tick dispatches only to the task in the slot, never to one whose filter
\* is deleted, and a task enters the slot only in its own start_task.
DispatchStep ==
  /\ \A t \in Tasks :
       (IsrSample /\ <<ignore_count_[t], filter_[t], delivered[t]>>' #
                     <<ignore_count_[t], filter_[t], delivered[t]>>)
         => (current_adc_task = t /\ Alive(t))
  /\ (current_adc_task' # current_adc_task /\ current_adc_task' # NoTask)
       => (start_task /\ current_adc_task' = self)

\* C19: once stop_task has returned for a task, no tick calls that task's
\* service until it is started again; the destructor stops the task before
\* it deletes the filter, so no tick forwards a sample to a deleted filter.
C19_NoServiceAfterStop ==
  /\ []StoppedNotActive
  /\ []DeletedNotActive
  /\ [][DispatchStep]_vars

\* Reached: a task that was active and had samples forwarded has been
\* destroyed, and ticks go on with the other task active.
C19_Witness ==
  /\ ~Alive("wind_vane_task")
  /\ forwarded["wind_vane_task"]
  /\ pc = "main"
  /\ current_adc_task = "other_task"
  /\ last_service.task = "other_task"
  /\ last_service.fwd

\* Before the initialisation nothing has run: the timer interrupt is off, no
\* conversion was triggered and no tick has dispatched; after it the timer
\* interrupt is on.
InitState ==
  /\ OCIE1A <=> adc_tasks_initialised
  /\ ~adc_tasks_initialised =>
       (~ADSC /\ last_hw = "none" /\ last_service = NoService /\
        current_adc_pin = UnsetPin /\ last_started = NoTask)

\* The flag is set by the first start_task, in the step that configures the
\* timer and triggers the first conversion, and is never cleared; the same
\* step of a later start_task changes nothing, and stop_task touches neither
\* the flag nor the timer interrupt.
InitStep ==
  /\ adc_tasks_initialised => adc_tasks_initialised'
  /\ (adc_tasks_initialised' # adc_tasks_initialised) =>
       (StartTask_init /\ last_started = NoTask /\ OCIE1A' /\ ADSC' /\
        last_hw' = "trigger_idle")
  /\ (StartTask_init /\ adc_tasks_initialised) =>
       UNCHANGED <<OCIE1A, ADSC, conv_chan, last_hw, adc_tasks_initialised>>
  /\ stop_task => UNCHANGED <<OCIE1A, adc_tasks_initialised>>
  /\ (OCIE1A' # OCIE1A) => (adc_tasks_initialised' # adc_tasks_initialised)

\* C20: the scheduler is initialised once, by the first start_task: no tick
\* runs before, the flag never returns to false, and no stop_task or later
\* start_task repeats or undoes the initialisation.
C20_InitialisedOnce == []InitState /\ [][InitStep]_vars

\* Reached: after the start_task that initialised, a stop_task and a second
\* start_task have passed the initialisation step with the flag set.
C20_Witness ==
  /\ adc_tasks_initialised
  /\ pc = "start_pin"
  /\ last_started # NoTask
  /\ last_service.fwd
  /\ current_adc_task = NoTask

====
